---- MODULE Spec2Model ----
(***************************************************************************)
(* Model of python-parser/parser.py: the loading-schedule parser.          *)
(*                                                                         *)
(* Text is a sequence of one-character strings, so that the regular        *)
(* expressions of parser.py are evaluated character by character.          *)
(* An Optional[...] value is a set: {} is None, {v} is the value v.        *)
(* confidence is held in hundredths (95 is 0.95, 75 is 0.75).              *)
(* The item fields section_size_raw, section_size_normalized,              *)
(* coating_product, element_type and frr_format are pure functions of      *)
(* raw_text that no branch reads; items carry the remaining fields.        *)
(***************************************************************************)
EXTENDS Integers, Sequences, FiniteSets

\* ------------------------------------------------------------------ text

Digits == {"0", "1", "2", "3", "4", "5", "6", "7", "8", "9"}

UpperLetters ==
    {"A", "B", "C", "D", "E", "F", "G", "H", "I", "J", "K", "L", "M",
     "N", "O", "P", "Q", "R", "S", "T", "U", "V", "W", "X", "Y", "Z"}

LowerLetters ==
    {"a", "b", "c", "d", "e", "f", "g", "h", "i", "j", "k", "l", "m",
     "n", "o", "p", "q", "r", "s", "t", "u", "v", "w", "x", "y", "z"}

\* str.upper() on one character (what re.I compares).
UpperOf ==
    [a |-> "A", b |-> "B", c |-> "C", d |-> "D", e |-> "E", f |-> "F", g |-> "G",
     h |-> "H", i |-> "I", j |-> "J", k |-> "K", l |-> "L", m |-> "M", n |-> "N",
     o |-> "O", p |-> "P", q |-> "Q", r |-> "R", s |-> "S", t |-> "T", u |-> "U",
     v |-> "V", w |-> "W", x |-> "X", y |-> "Y", z |-> "Z"]

Upper(c) == IF c \in LowerLetters THEN UpperOf[c] ELSE c

\* The Greek letter mu of DFT_REGEX's unit label, held as one character.
Mu == "mu"

\* \w of the re module.
WordChars == Digits \cup UpperLetters \cup LowerLetters \cup {"_", Mu}

IsWordChar(c) == c \in WordChars

\* \s of the re module, and what str.strip() removes.
IsSpace(c) == c = " "

IsDigit(c) == c \in Digits

DigitValue(c) ==
    CASE c = "0" -> 0 [] c = "1" -> 1 [] c = "2" -> 2 [] c = "3" -> 3
      [] c = "4" -> 4 [] c = "5" -> 5 [] c = "6" -> 6 [] c = "7" -> 7
      [] c = "8" -> 8 [] c = "9" -> 9

\* int(s) for a string of digits.
RECURSIVE ToInt(_)
ToInt(s) ==
    IF s = <<>> THEN 0
    ELSE 10 * ToInt(SubSeq(s, 1, Len(s) - 1)) + DigitValue(s[Len(s)])

\* " ".join(parts)
RECURSIVE Join(_)
Join(parts) ==
    IF parts = <<>> THEN <<>>
    ELSE IF Len(parts) = 1 THEN parts[1]
    ELSE parts[1] \o <<" ">> \o Join(Tail(parts))

RECURSIVE LStrip(_)
LStrip(t) == IF t # <<>> /\ IsSpace(t[1]) THEN LStrip(Tail(t)) ELSE t

RECURSIVE RStrip(_)
RStrip(t) ==
    IF t # <<>> /\ IsSpace(t[Len(t)]) THEN RStrip(SubSeq(t, 1, Len(t) - 1)) ELSE t

\* str.strip()
Strip(t) == RStrip(LStrip(t))

\* str.isdigit(): non-empty and every character a digit.
IsDigitStr(t) == t # <<>> /\ \A i \in 1..Len(t) : IsDigit(t[i])

\* t[:n]
Take(t, n) == SubSeq(t, 1, IF Len(t) < n THEN Len(t) ELSE n)

\* ------------------------------------------------- regular expressions

\* \b at position i: between t[i-1] and t[i] (i ranges over 1..Len(t)+1).
Boundary(t, i) ==
    (i > 1 /\ IsWordChar(t[i - 1])) # (i <= Len(t) /\ IsWordChar(t[i]))

\* Length of the longest run of digits starting at position i.
RECURSIVE DigitRun(_, _)
DigitRun(t, i) ==
    IF i <= Len(t) /\ IsDigit(t[i]) THEN 1 + DigitRun(t, i + 1) ELSE 0

RECURSIVE SpaceRun(_, _)
SpaceRun(t, i) ==
    IF i <= Len(t) /\ IsSpace(t[i]) THEN 1 + SpaceRun(t, i + 1) ELSE 0

\* Longest run of [-:\s] starting at i.
RECURSIVE SepRun(_, _)
SepRun(t, i) ==
    IF i <= Len(t) /\ (IsSpace(t[i]) \/ t[i] \in {"-", ":"})
    THEN 1 + SepRun(t, i + 1) ELSE 0

\* Longest run of [A-Z] starting at i (MEMBER_MARK_REGEX has no re.I).
RECURSIVE UpperRun(_, _)
UpperRun(t, i) ==
    IF i <= Len(t) /\ t[i] \in UpperLetters THEN 1 + UpperRun(t, i + 1) ELSE 0

\* The literal lit matches t at position i, ignoring case.
LitAt(t, i, lit) ==
    /\ i + Len(lit) - 1 <= Len(t)
    /\ \A k \in 1..Len(lit) : Upper(t[i + k - 1]) = Upper(lit[k])

\* The shape codes of SECTION_REGEX, in the order of its alternation.
ShapeCodes ==
    << <<"U", "B">>, <<"U", "C">>, <<"W", "B">>, <<"S", "H", "S">>,
       <<"R", "H", "S">>, <<"C", "H", "S">>, <<"F", "B">>, <<"W", "C">>,
       <<"C", "W", "B">>, <<"P", "F", "C">>, <<"E", "A">>, <<"U", "A">> >>

\* Positions reachable from a position of P by \d*, \d+, \s*, [xX]? and the
\* shape-code alternation: the matcher's backtracking explores all of them.
StarDigits(t, P) == UNION {p..(p + DigitRun(t, p)) : p \in P}

PlusDigits(t, P) == UNION {(p + 1)..(p + DigitRun(t, p)) : p \in P}

StarSpaces(t, P) == UNION {p..(p + SpaceRun(t, p)) : p \in P}

OptX(t, P) == P \cup {p + 1 : p \in {q \in P : LitAt(t, q, <<"X">>)}}

ShapeCode(t, P) ==
    UNION {{p + Len(ShapeCodes[c]) : c \in {d \in DOMAIN ShapeCodes :
                                            LitAt(t, p, ShapeCodes[d])}} : p \in P}

\* SECTION_REGEX matches t starting at position i.
SectionMatchAt(t, i) ==
    /\ IsDigit(t[i])
    /\ Boundary(t, i)
    /\ \E e \in StarDigits(t, StarSpaces(t, ShapeCode(t, StarSpaces(t,
                  StarDigits(t, StarSpaces(t, OptX(t, StarSpaces(t,
                  PlusDigits(t, {i}))))))))) : Boundary(t, e)

\* bool(SECTION_REGEX.search(t))
HasSection(t) == \E i \in 1..Len(t) : SectionMatchAt(t, i)

\* FRR_REGEX = \bR(\d{2,3})\b with re.I, at position i: the run of digits
\* after the R is 2 or 3 long and ends at a word boundary (a longer run
\* leaves a digit after \d{3}, which is no boundary).
FrrMatchAt(t, i) ==
    /\ i <= Len(t)
    /\ LitAt(t, i, <<"R">>)
    /\ Boundary(t, i)
    /\ DigitRun(t, i + 1) \in {2, 3}
    /\ Boundary(t, i + 1 + DigitRun(t, i + 1))

\* bool(FRR_REGEX.search(t))
HasFrr(t) == \E i \in 1..Len(t) : FrrMatchAt(t, i)

\* FRR_LEGACY_REGEX = \bFRR[-:\s]*(\d+) with re.I, at position i.
LegacyMatchAt(t, i) ==
    /\ i <= Len(t)
    /\ LitAt(t, i, <<"F", "R", "R">>)
    /\ Boundary(t, i)
    /\ DigitRun(t, i + 3 + SepRun(t, i + 3)) >= 1

HasLegacyFrr(t) == \E i \in 1..Len(t) : LegacyMatchAt(t, i)

\* The least position of a non-empty set of positions (search is leftmost).
First(P) == CHOOSE p \in P : \A q \in P : p <= q

\* group(1) of the match normalize_frr selects: FRR_REGEX first, and
\* FRR_LEGACY_REGEX only when FRR_REGEX finds nothing. {} when neither matches.
FrrDigits(t) ==
    IF HasFrr(t) THEN
        LET i == First({p \in 1..Len(t) : FrrMatchAt(t, p)})
        IN  {SubSeq(t, i + 1, i + DigitRun(t, i + 1))}
    ELSE IF HasLegacyFrr(t) THEN
        LET i == First({p \in 1..Len(t) : LegacyMatchAt(t, p)})
            j == i + 3 + SepRun(t, i + 3)
        IN  {SubSeq(t, j, j + DigitRun(t, j) - 1)}
    ELSE {}

\* The six standard ratings normalize_frr accepts.
FrrWhitelist == {30, 60, 90, 120, 180, 240}

\* normalize_frr without its test against the six standard ratings.
normalize_frr_any(t) == {ToInt(d) : d \in FrrDigits(t)}

\* normalize_frr(text)["frr_minutes"], {} for None.
normalize_frr(t) ==
    {ToInt(d) : d \in FrrDigits(t)} \cap FrrWhitelist

\* The unit labels of DFT_REGEX, in the order of its alternation.
DftUnits ==
    << <<"m", "i", "c", "r", "o", "n">>, <<Mu, "m">>, <<"u", "m">>,
       <<"m", "i", "c">>, <<>> >>

\* DFT_REGEX = \b(\d{2,4})\s*(?:micron|mu m|um|mic)?\b with re.I at position i:
\* the ways <<n, s, u>> to match n digits, s spaces and unit u.
DftWays(t, i) ==
    IF i > Len(t) \/ ~IsDigit(t[i]) \/ ~Boundary(t, i) THEN {}
    ELSE UNION {UNION {{<<n, s, u>> : u \in {v \in DOMAIN DftUnits :
                           /\ LitAt(t, i + n + s, DftUnits[v])
                           /\ Boundary(t, i + n + s + Len(DftUnits[v]))}} :
                       s \in 0..SpaceRun(t, i + n)} :
                n \in {m \in 2..4 : m <= DigitRun(t, i)}}

\* The way the backtracking matcher finds first: most digits, then most
\* spaces, then the earliest unit of the alternation (no unit last).
DftFirstWay(W) ==
    CHOOSE w \in W : \A v \in W :
        \/ w[1] > v[1]
        \/ w[1] = v[1] /\ w[2] > v[2]
        \/ w[1] = v[1] /\ w[2] = v[2] /\ w[3] <= v[3]

\* DFT_REGEX.findall(t) from position i on: group(1) of each match, the
\* scan resuming where the previous match ended.
RECURSIVE DftFindall(_, _)
DftFindall(t, i) ==
    IF i > Len(t) THEN <<>>
    ELSE IF DftWays(t, i) = {} THEN DftFindall(t, i + 1)
    ELSE LET w == DftFirstWay(DftWays(t, i))
         IN  <<SubSeq(t, i, i + w[1] - 1)>>
             \o DftFindall(t, i + w[1] + w[2] + Len(DftUnits[w[3]]))

DftMin == 300
DftMax == 3000

\* extract_dft(text): the first match whose value lies in [300, 3000].
extract_dft(t) ==
    LET m == DftFindall(t, 1)
        ok == {k \in 1..Len(m) : DftMin <= ToInt(m[k]) /\ ToInt(m[k]) <= DftMax}
    IN  IF ok = {} THEN {} ELSE {ToInt(m[First(ok)])}

\* MEMBER_MARK_REGEX = \b([A-Z]{1,3}\d+[A-Z]?)\b at position i: the end of
\* the match (0 when there is none). The run of capitals is 1 to 3 long,
\* digits follow, and the optional capital is taken when it ends the word.
MemberMarkEnd(t, i) ==
    LET k == UpperRun(t, i)
        d == DigitRun(t, i + k)
        e == i + k + d
    IN  IF i > Len(t) \/ ~Boundary(t, i) \/ k \notin 1..3 \/ d = 0 THEN 0
        ELSE IF e <= Len(t) /\ t[e] \in UpperLetters /\ Boundary(t, e + 1) THEN e + 1
        ELSE IF Boundary(t, e) THEN e
        ELSE 0

\* extract_member_mark(text): the leftmost match, {} for None.
extract_member_mark(t) ==
    LET P == {p \in 1..Len(t) : MemberMarkEnd(t, p) > 0}
    IN  IF P = {} THEN {} ELSE {SubSeq(t, First(P), MemberMarkEnd(t, First(P)) - 1)}

MinRowLen == 10

\* is_valid_structural_row(text)
is_valid_structural_row(t) ==
    IF ~HasSection(t) THEN FALSE
    ELSE IF ~HasFrr(t) THEN FALSE
    ELSE IF Len(t) < MinRowLen THEN FALSE
    ELSE TRUE

\* ---------------------------------------------------- group_rows, stitch_rows

\* A word is [text, top, x0]; a row is [y, words].

Abs(n) == IF n < 0 THEN 0 - n ELSE n

\* The default tolerance of group_rows.
Tolerance == 3

\* sorted() is stable: w goes after every word whose key is <= its own.
InsertByTop(sorted, w) ==
    LET k == Cardinality({i \in DOMAIN sorted : sorted[i].top <= w.top})
    IN  SubSeq(sorted, 1, k) \o <<w>> \o SubSeq(sorted, k + 1, Len(sorted))

\* sorted(words, key=lambda w: w["top"])
RECURSIVE SortByTop(_)
SortByTop(ws) ==
    IF ws = <<>> THEN <<>>
    ELSE InsertByTop(SortByTop(SubSeq(ws, 1, Len(ws) - 1)), ws[Len(ws)])

InsertByX0(sorted, w) ==
    LET k == Cardinality({i \in DOMAIN sorted : sorted[i].x0 <= w.x0})
    IN  SubSeq(sorted, 1, k) \o <<w>> \o SubSeq(sorted, k + 1, Len(sorted))

\* row["words"].sort(key=lambda w: w["x0"])
RECURSIVE SortByX0(_)
SortByX0(ws) ==
    IF ws = <<>> THEN <<>>
    ELSE InsertByX0(SortByX0(SubSeq(ws, 1, Len(ws) - 1)), ws[Len(ws)])

\* words_sorted left in the order the words came in.
WordsUnsorted(ws) == ws

\* words_sorted of group_rows.
WordsSorted(ws) == SortByTop(ws)

\* The test with "<=" in the place of "<".
WithinToleranceInclusive(row, word) == Abs(row.y - word.top) <= Tolerance

\* The test of the inner loop of group_rows: the word belongs to the row.
WithinTolerance(row, word) == Abs(row.y - word.top) < Tolerance

\* One iteration of the assignment loop of group_rows: the word joins the
\* first row within the tolerance, or seeds a new row.
PlaceWord(rs, word) ==
    LET M == {i \in DOMAIN rs : WithinTolerance(rs[i], word)}
    IN  IF M # {}
        THEN [rs EXCEPT ![First(M)].words = Append(@, word)]
        ELSE Append(rs, [y |-> word.top, words |-> <<word>>])

RECURSIVE PlaceAll(_, _)
PlaceAll(rs, ws) ==
    IF ws = <<>> THEN rs ELSE PlaceAll(PlaceWord(rs, ws[1]), Tail(ws))

\* The closing loop of group_rows: every row's words sorted by x0.
SortRows(rs) == [i \in DOMAIN rs |-> [rs[i] EXCEPT !.words = SortByX0(@)]]

\* group_rows(words)
group_rows(ws) == SortRows(PlaceAll(<<>>, WordsSorted(ws)))

\* " ".join(w["text"] for w in row["words"])
RowText(row) == Join([i \in DOMAIN row.words |-> row.words[i].text])

MaxFragmentLen == 2

\* The test of stitch_rows: the row is a short numeric fragment.
IsFragment(row) ==
    LET row_text == Strip(RowText(row))
    IN  IsDigitStr(row_text) /\ Len(row_text) <= MaxFragmentLen

\* The iteration putting a fragment's words before the buffer's.
StitchStepPrepends(st, row) ==
    IF IsFragment(row) THEN
        IF st.buffer # {}
        THEN [st EXCEPT !.buffer =
                 {[b EXCEPT !.words = row.words \o @] : b \in st.buffer}]
        ELSE st
    ELSE [stitched |-> IF st.buffer # {}
                       THEN Append(st.stitched, CHOOSE b \in st.buffer : TRUE)
                       ELSE st.stitched,
          buffer |-> {row}]

\* The iteration without its "continue" for a fragment met while the
\* buffer is empty: the fragment becomes the buffer.
StitchStepKeepsLeading(st, row) ==
    IF IsFragment(row) /\ st.buffer # {}
    THEN [st EXCEPT !.buffer =
             {[b EXCEPT !.words = @ \o row.words] : b \in st.buffer}]
    ELSE [stitched |-> IF st.buffer # {}
                       THEN Append(st.stitched, CHOOSE b \in st.buffer : TRUE)
                       ELSE st.stitched,
          buffer |-> {row}]

\* One iteration of the loop of stitch_rows on the pair [stitched, buffer]
\* (buffer is {} for None).
StitchStep(st, row) ==
    IF IsFragment(row) THEN
        IF st.buffer # {}
        THEN [st EXCEPT !.buffer =
                 {[b EXCEPT !.words = @ \o row.words] : b \in st.buffer}]
        ELSE st
    ELSE [stitched |-> IF st.buffer # {}
                       THEN Append(st.stitched, CHOOSE b \in st.buffer : TRUE)
                       ELSE st.stitched,
          buffer |-> {row}]

\* The flush after the loop of stitch_rows.
StitchFlush(st) ==
    IF st.buffer # {}
    THEN Append(st.stitched, CHOOSE b \in st.buffer : TRUE)
    ELSE st.stitched

RECURSIVE StitchAll(_, _)
StitchAll(st, rs) ==
    IF rs = <<>> THEN st ELSE StitchAll(StitchStep(st, rs[1]), Tail(rs))

\* stitch_rows(rows)
stitch_rows(rs) == StitchFlush(StitchAll([stitched |-> <<>>, buffer |-> {}], rs))

\* ------------------------------------------------- parse_loading_schedule

VARIABLES
    pc,             \* "open", "page" (between pages), "rows" (in a row loop), "done"
    total_pages,    \* len(pdf.pages)
    page_number,    \* the page the loop is at, from 1
    items,          \* the items list
    errors,         \* the errors list, each [page, text] for "Page <page>: <text>"
    debug_samples,  \* the debug_samples list
    rows,           \* the candidate rows of the current page (table_rows or rows)
    source,         \* "table" or "words": which loop runs over rows
    row_idx,        \* how many rows of the current page the loop has consumed
    result,         \* {} until parse_loading_schedule returns, then {its result}
    seen,           \* history: per page begun, what it was and the row texts it gave
    drawn,          \* history: how many input lines the pages begun held
    gpc, gwords, gqueue, grows,          \* group_rows, run step by step
    spc, sarg, squeue, sst, sout         \* stitch_rows, run step by step

parseVars == <<pc, total_pages, page_number, items, errors, debug_samples,
               rows, source, row_idx, result, seen, drawn>>
groupVars == <<gpc, gwords, gqueue, grows>>
stitchVars == <<spc, sarg, squeue, sst, sout>>
vars == <<parseVars, groupVars, stitchVars>>

MaxDebugSamples == 10
MinSampleLen == 15
SampleTextLen == 100

\* str(cell or "") for the cells of one table row, joined and stripped.
TableRowText(table_row) == Strip(Join(table_row))

\* The table_rows list built from page.extract_tables(): the non-empty rows
\* with non-empty text, each with its index in table_rows.
RECURSIVE CollectTableRows(_, _)
CollectTableRows(acc, table) ==
    IF table = <<>> THEN acc
    ELSE LET table_row == table[1]
             row_text == TableRowText(table_row)
         IN  CollectTableRows(
                 IF table_row # <<>> /\ row_text # <<>>
                 THEN Append(acc, [text |-> row_text, idx |-> Len(acc)])
                 ELSE acc,
                 Tail(table))

RECURSIVE TableRows(_, _)
TableRows(acc, tables) ==
    IF tables = <<>> THEN acc
    ELSE TableRows(CollectTableRows(acc, tables[1]), Tail(tables))

\* The text the row loop reads from rows[i] (1-based i).
RowTextAt(rs, src, i) == IF src = "table" THEN rs[i].text ELSE RowText(rs[i])

\* The 0-based index the row loop holds for rows[i]: row_data["idx"] in the
\* table loop, the position enumerate() gives in the words loop.
RowIndexAt(rs, src, i) == IF src = "table" THEN rs[i].idx ELSE i - 1

\* needs_review with "and" in the place of "or".
NeedsReviewBoth(dft_value, member_mark) == dft_value = {} /\ member_mark = {}

\* needs_review = dft_value is None or member_mark is None
NeedsReview(dft_value, member_mark) == dft_value = {} \/ member_mark = {}

\* confidence, in hundredths.
HighConfidence == 95
LowConfidence == 75
Confidence(needs_review) == IF needs_review THEN LowConfidence ELSE HighConfidence

\* "line": row_idx + 1, with row_idx the 0-based index of the row.
LineOf(idx) == idx + 1

\* The item built from a row that passed every check.
MakeItem(page, idx, row_text) ==
    LET dft_value == extract_dft(row_text)
        member_mark == extract_member_mark(row_text)
        needs_review == NeedsReview(dft_value, member_mark)
    IN  [page |-> page,
         line |-> LineOf(idx),
         raw_text |-> Strip(row_text),
         member_mark |-> member_mark,
         frr_minutes |-> CHOOSE m \in normalize_frr(row_text) : TRUE,
         dft_required_microns |-> dft_value,
         confidence |-> Confidence(needs_review),
         needs_review |-> needs_review]

\* The row yields an item: it passes is_valid_structural_row, normalize_frr
\* and the second SECTION_REGEX.search.
YieldsItem(row_text) ==
    /\ is_valid_structural_row(row_text)
    /\ normalize_frr(row_text) # {}
    /\ HasSection(row_text)

\* The debug sample taken of a row.
MakeSample(page, src, row_text) ==
    [text |-> Take(row_text, SampleTextLen),
     has_section |-> HasSection(row_text),
     has_frr |-> HasFrr(row_text),
     page |-> page,
     source |-> src]

\* debug_samples without the limit of 10.
SamplesAfterUncapped(samples, page, src, row_text) ==
    IF Len(row_text) > MinSampleLen
    THEN Append(samples, MakeSample(page, src, row_text))
    ELSE samples

\* debug_samples after the row: a sample is taken of a row longer than 15
\* characters while fewer than 10 are held.
SamplesAfter(samples, page, src, row_text) ==
    IF Len(samples) < MaxDebugSamples /\ Len(row_text) > MinSampleLen
    THEN Append(samples, MakeSample(page, src, row_text))
    ELSE samples

\* A page as the layout engine gives it is [raises, tables, words, lines]:
\* extraction raises, or it yields tables (lists of rows of cells, <<>> for
\* a None or empty cell) and words; lines counts the text lines and table
\* rows the page holds.

ParseInit ==
    /\ pc = "open"
    /\ total_pages = 0
    /\ page_number = 1
    /\ items = <<>>
    /\ errors = <<>>
    /\ debug_samples = <<>>
    /\ rows = <<>>
    /\ source = "none"
    /\ row_idx = 0
    /\ result = {}
    /\ seen = <<>>
    /\ drawn = 0

\* pdfplumber.open succeeds on a document of n pages.
Open(n) ==
    /\ pc = "open"
    /\ pc' = "page"
    /\ total_pages' = n
    /\ UNCHANGED <<page_number, items, errors, debug_samples, rows, source,
                   row_idx, result, seen, drawn>>
    /\ UNCHANGED <<groupVars, stitchVars>>

\* pdfplumber.open raises: the outer except clause.
OpenFails ==
    /\ pc = "open"
    /\ pc' = "done"
    /\ result' = {[status |-> "failed",
                   error_code |-> "PARSER_ERROR",
                   items_extracted |-> 0,
                   items |-> <<>>,
                   errors |-> <<"open">>]}
    /\ UNCHANGED <<total_pages, page_number, items, errors, debug_samples, rows,
                   source, row_idx, seen, drawn>>
    /\ UNCHANGED <<groupVars, stitchVars>>

\* The inner except clause dropping the items gathered so far.
PageRaisesDropsItems(pg) ==
    /\ pc = "page" /\ page_number <= total_pages
    /\ pg.raises
    /\ errors' = Append(errors, [page |-> page_number, text |-> "exception"])
    /\ items' = <<>>
    /\ page_number' = page_number + 1
    /\ seen' = Append(seen, [kind |-> "raised", texts |-> <<>>])
    /\ drawn' = drawn + pg.lines
    /\ UNCHANGED <<pc, total_pages, debug_samples, rows, source, row_idx, result>>
    /\ UNCHANGED <<groupVars, stitchVars>>

\* extract_tables or extract_words raises on the page: the inner except clause.
PageRaises(pg) ==
    /\ pc = "page" /\ page_number <= total_pages
    /\ pg.raises
    /\ errors' = Append(errors, [page |-> page_number, text |-> "exception"])
    /\ page_number' = page_number + 1
    /\ seen' = Append(seen, [kind |-> "raised", texts |-> <<>>])
    /\ drawn' = drawn + pg.lines
    /\ UNCHANGED <<pc, total_pages, items, debug_samples, rows, source, row_idx,
                   result>>
    /\ UNCHANGED <<groupVars, stitchVars>>

\* The page gives neither words nor table rows.
PageNoText(pg) ==
    /\ pc = "page" /\ page_number <= total_pages
    /\ ~pg.raises
    /\ pg.words = <<>> /\ TableRows(<<>>, pg.tables) = <<>>
    /\ errors' = Append(errors, [page |-> page_number, text |-> "No text extracted"])
    /\ page_number' = page_number + 1
    /\ seen' = Append(seen, [kind |-> "notext", texts |-> <<>>])
    /\ drawn' = drawn + pg.lines
    /\ UNCHANGED <<pc, total_pages, items, debug_samples, rows, source, row_idx,
                   result>>
    /\ UNCHANGED <<groupVars, stitchVars>>

\* The page gives table rows: the table loop will run over them.
PageTable(pg) ==
    /\ pc = "page" /\ page_number <= total_pages
    /\ ~pg.raises
    /\ TableRows(<<>>, pg.tables) # <<>>
    /\ rows' = TableRows(<<>>, pg.tables)
    /\ source' = "table"
    /\ row_idx' = 0
    /\ pc' = "rows"
    /\ seen' = Append(seen, [kind |-> "table",
                             texts |-> [i \in DOMAIN rows' |-> RowTextAt(rows', "table", i)]])
    /\ drawn' = drawn + pg.lines
    /\ UNCHANGED <<total_pages, page_number, items, errors, debug_samples, result>>
    /\ UNCHANGED <<groupVars, stitchVars>>

\* The page gives words and no table rows: they are grouped and stitched.
PageWords(pg) ==
    /\ pc = "page" /\ page_number <= total_pages
    /\ ~pg.raises
    /\ pg.words # <<>> /\ TableRows(<<>>, pg.tables) = <<>>
    /\ rows' = stitch_rows(group_rows(pg.words))
    /\ source' = "words"
    /\ row_idx' = 0
    /\ pc' = "rows"
    /\ seen' = Append(seen, [kind |-> "words",
                             texts |-> [i \in DOMAIN rows' |-> RowTextAt(rows', "words", i)]])
    /\ drawn' = drawn + pg.lines
    /\ UNCHANGED <<total_pages, page_number, items, errors, debug_samples, result>>
    /\ UNCHANGED <<groupVars, stitchVars>>

\* How many items of the items list are of the given page.
ItemsOfPage(its, page) == Cardinality({i \in DOMAIN its : its[i].page = page})

\* The row loop numbering the items it emits 1, 2, 3, ... instead of by
\* the row's index.
ProcessRowRenumbered ==
    /\ pc = "rows" /\ row_idx < Len(rows)
    /\ LET row_text == RowTextAt(rows, source, row_idx + 1)
       IN  /\ debug_samples' = SamplesAfter(debug_samples, page_number, source, row_text)
           /\ items' = IF YieldsItem(row_text)
                        THEN Append(items,
                                 [MakeItem(page_number,
                                           RowIndexAt(rows, source, row_idx + 1), row_text)
                                     EXCEPT !.line = ItemsOfPage(items, page_number) + 1])
                        ELSE items
    /\ row_idx' = row_idx + 1
    /\ UNCHANGED <<pc, total_pages, page_number, errors, rows, source, result,
                   seen, drawn>>
    /\ UNCHANGED <<groupVars, stitchVars>>

\* One iteration of the row loop (the table loop and the words loop have
\* the same body): the sample, the checks, the item.
ProcessRow ==
    /\ pc = "rows" /\ row_idx < Len(rows)
    /\ LET row_text == RowTextAt(rows, source, row_idx + 1)
       IN  /\ debug_samples' = SamplesAfter(debug_samples, page_number, source, row_text)
           /\ items' = IF YieldsItem(row_text)
                        THEN Append(items,
                                 MakeItem(page_number,
                                          RowIndexAt(rows, source, row_idx + 1), row_text))
                        ELSE items
    /\ row_idx' = row_idx + 1
    /\ UNCHANGED <<pc, total_pages, page_number, errors, rows, source, result,
                   seen, drawn>>
    /\ UNCHANGED <<groupVars, stitchVars>>

\* The row loop is exhausted: on to the next page.
EndPage ==
    /\ pc = "rows" /\ row_idx = Len(rows)
    /\ pc' = "page"
    /\ page_number' = page_number + 1
    /\ UNCHANGED <<total_pages, items, errors, debug_samples, rows, source,
                   row_idx, result, seen, drawn>>
    /\ UNCHANGED <<groupVars, stitchVars>>

\* The result returned after the last page.
FinalResult(its, errs, samples, pages) ==
    IF Len(its) = 0
    THEN [status |-> "failed",
          error_code |-> "NO_STRUCTURAL_ROWS_DETECTED",
          items_extracted |-> 0,
          items |-> <<>>,
          total_pages |-> pages,
          errors |-> errs,
          debug_samples |-> samples]
    ELSE [status |-> "completed",
          items_extracted |-> Len(its),
          items |-> its,
          total_pages |-> pages,
          errors |-> errs]

\* The page loop is exhausted: parse_loading_schedule returns.
Finish ==
    /\ pc = "page" /\ page_number > total_pages
    /\ pc' = "done"
    /\ result' = {FinalResult(items, errors, debug_samples, total_pages)}
    /\ UNCHANGED <<total_pages, page_number, items, errors, debug_samples, rows,
                   source, row_idx, seen, drawn>>
    /\ UNCHANGED <<groupVars, stitchVars>>

\* ------------------------------------------------------------ the inputs

MaxPages == 2
MaxDocLines == 2

W_B10 == <<"B", "1", "0">>
W_610UB125 == <<"6", "1", "0", "U", "B", "1", "2", "5">>
W_R60 == <<"R", "6", "0">>
W_r60 == <<"r", "6", "0">>
W_R45 == <<"R", "4", "5">>
W_FRR == <<"F", "R", "R", ":">>
W_60 == <<"6", "0">>
W_450 == <<"4", "5", "0">>
W_10 == <<"1", "0">>

LineFull == <<W_B10, W_610UB125, W_R60, W_450>>
LineNoDft == <<W_B10, W_610UB125, W_R60>>
LineNoMark == <<W_610UB125, W_r60, W_450>>
LineR45 == <<W_B10, W_610UB125, W_R45, W_450>>
LineLegacy == <<W_B10, W_610UB125, W_FRR, W_60, W_450>>
LineFragment == <<W_10>>

\* The text lines a page is made of, each a sequence of words.
Lines == {LineFull, LineNoDft, LineNoMark, LineR45, LineLegacy, LineFragment}

\* A table row whose cells are all None.
BlankRow == << <<>>, <<>> >>

SeqsUpTo(S, n) == UNION {[1..k -> S] : k \in 0..n}

\* The words of line j (from 1): word k at x0 = k, its top within one unit
\* of the line's, the lines ten units apart; given right to left.
LineWords(line, j) ==
    [k \in 1..Len(line) |->
        LET m == Len(line) + 1 - k
        IN  [text |-> line[m], top |-> 10 * j + (m % 2), x0 |-> m]]

\* The words of a page of lines, the last line first.
RECURSIVE PageWordsOf(_, _)
PageWordsOf(ls, j) ==
    IF j > Len(ls) THEN <<>> ELSE PageWordsOf(ls, j + 1) \o LineWords(ls[j], j)

\* The pages of at most n lines.
RaisingPages == {[raises |-> TRUE, tables |-> <<>>, words |-> <<>>, lines |-> 0]}

EmptyPages(n) ==
    {[raises |-> FALSE, tables |-> <<>>, words |-> <<>>, lines |-> 0]}
    \cup {[raises |-> FALSE, tables |-> << <<BlankRow>> >>, words |-> <<>>, lines |-> 1] :
             k \in 1..(IF n >= 1 THEN 1 ELSE 0)}

TablePages(n) ==
    {[raises |-> FALSE, tables |-> <<ls>>, words |-> <<>>, lines |-> Len(ls)] :
        ls \in SeqsUpTo(Lines \cup {BlankRow}, n) \ {<<>>}}
    \cup {[raises |-> FALSE, tables |-> << <<ls[1]>>, Tail(ls) >>, words |-> <<>>,
           lines |-> Len(ls)] :
             ls \in SeqsUpTo(Lines, n) \ SeqsUpTo(Lines, 1)}

WordPages(n) ==
    {[raises |-> FALSE, tables |-> <<>>, words |-> PageWordsOf(ls, 1), lines |-> Len(ls)] :
        ls \in SeqsUpTo(Lines, n) \ {<<>>}}
    \cup {[raises |-> FALSE, tables |-> << <<BlankRow>> >>, words |-> PageWordsOf(<<l>>, 1),
           lines |-> 2] : l \in (IF n >= 2 THEN Lines ELSE {})}

\* The pages the next page is drawn from: the document holds at most
\* MaxDocLines lines in all.
Pool ==
    LET n == MaxDocLines - drawn
    IN  RaisingPages \cup EmptyPages(n) \cup TablePages(n) \cup WordPages(n)

\* The pages of the documents of many rows: each page is one of a few
\* shapes, a full page holding FullPageRows rows.
FullPageRows == 4
MaxManyPages == 3

Repeat(line, n) == [k \in 1..n |-> line]

ManyRowPool ==
    RaisingPages
    \cup {[raises |-> FALSE, tables |-> <<>>, words |-> <<>>, lines |-> 0]}
    \cup {[raises |-> FALSE, tables |-> <<ls>>, words |-> <<>>, lines |-> Len(ls)] :
             ls \in {Repeat(LineLegacy, FullPageRows), <<LineFull>>,
                     <<LineFragment, LineFull>>}}
    \cup {[raises |-> FALSE, tables |-> <<>>, words |-> PageWordsOf(ls, 1), lines |-> Len(ls)] :
             ls \in {Repeat(LineR45, FullPageRows), <<LineR45, LineFragment, LineNoDft>>}}

\* ------------------------------------------------- the specifications

ParseIdle ==
    /\ pc = "idle" /\ total_pages = 0 /\ page_number = 1 /\ items = <<>>
    /\ errors = <<>> /\ debug_samples = <<>> /\ rows = <<>> /\ source = "none"
    /\ row_idx = 0 /\ result = {} /\ seen = <<>> /\ drawn = 0

GroupIdle == gpc = "idle" /\ gwords = <<>> /\ gqueue = <<>> /\ grows = <<>>

StitchIdle == spc = "idle" /\ sarg = <<>> /\ squeue = <<>> /\ sst = <<>> /\ sout = <<>>

\* parse_loading_schedule on a document of at most MaxPages pages and
\* MaxDocLines lines, every line one of Lines.
Init == ParseInit /\ GroupIdle /\ StitchIdle

Next ==
    \/ \E n \in 0..MaxPages : Open(n)
    \/ OpenFails
    \/ \E pg \in Pool : PageRaises(pg)
    \/ \E pg \in Pool : PageNoText(pg)
    \/ \E pg \in Pool : PageTable(pg)
    \/ \E pg \in Pool : PageWords(pg)
    \/ ProcessRow
    \/ EndPage
    \/ Finish

Spec == Init /\ [][Next]_vars

\* parse_loading_schedule on a document of at most MaxManyPages pages, each
\* one of ManyRowPool.
NextMany ==
    \/ \E n \in 0..MaxManyPages : Open(n)
    \/ OpenFails
    \/ \E pg \in ManyRowPool : PageRaises(pg)
    \/ \E pg \in ManyRowPool : PageNoText(pg)
    \/ \E pg \in ManyRowPool : PageTable(pg)
    \/ \E pg \in ManyRowPool : PageWords(pg)
    \/ ProcessRow
    \/ EndPage
    \/ Finish

SpecMany == Init /\ [][NextMany]_vars

\* group_rows on at most MaxWords words.
MaxWords == 3
MaxTop == 5
XPositions == {0, 1}

GroupWords == [text : {W_10}, top : 0..MaxTop, x0 : XPositions]

GroupInit ==
    /\ gpc = "sort"
    /\ gwords \in SeqsUpTo(GroupWords, MaxWords)
    /\ gqueue = <<>>
    /\ grows = <<>>

\* words_sorted = sorted(words, ...)
GroupSort ==
    /\ gpc = "sort"
    /\ gqueue' = WordsSorted(gwords)
    /\ gpc' = "place"
    /\ UNCHANGED <<gwords, grows, parseVars, stitchVars>>

\* One iteration of the assignment loop.
GroupPlace ==
    /\ gpc = "place" /\ gqueue # <<>>
    /\ grows' = PlaceWord(grows, Head(gqueue))
    /\ gqueue' = Tail(gqueue)
    /\ UNCHANGED <<gpc, gwords, parseVars, stitchVars>>

\* The closing loop and the return.
GroupReturn ==
    /\ gpc = "place" /\ gqueue = <<>>
    /\ grows' = SortRows(grows)
    /\ gpc' = "done"
    /\ UNCHANGED <<gwords, gqueue, parseVars, stitchVars>>

NextGroup == GroupSort \/ GroupPlace \/ GroupReturn

InitGroup == GroupInit /\ ParseIdle /\ StitchIdle

SpecGroup == InitGroup /\ [][NextGroup]_vars

\* stitch_rows on at most MaxStitchRows rows, then on its own result.
MaxStitchRows == 3

W_7 == <<"7">>
W_1 == <<"1">>
W_0 == <<"0">>
W_123 == <<"1", "2", "3">>

\* The word lists of the rows: two fragments, and three content rows (one
\* of three digits, one of two one-digit words, one of text).
StitchLines == {<<W_10>>, <<W_7>>, <<W_123>>, <<W_1, W_0>>, <<W_B10, W_R60>>}

\* The row at position j made of the words of line.
RowOf(line, j) ==
    [y |-> 10 * j,
     words |-> [k \in 1..Len(line) |-> [text |-> line[k], top |-> 10 * j, x0 |-> k]]]

StitchInputs ==
    {[j \in 1..Len(ls) |-> RowOf(ls[j], j)] : ls \in SeqsUpTo(StitchLines, MaxStitchRows)}

StitchStart == [stitched |-> <<>>, buffer |-> {}]

StitchInit ==
    /\ spc = "first"
    /\ sarg \in StitchInputs
    /\ squeue = sarg
    /\ sst = StitchStart
    /\ sout = <<>>

\* One iteration of the loop of stitch_rows.
StitchIterate ==
    /\ spc \in {"first", "second"} /\ squeue # <<>>
    /\ sst' = StitchStep(sst, Head(squeue))
    /\ squeue' = Tail(squeue)
    /\ UNCHANGED <<spc, sarg, sout, parseVars, groupVars>>

\* The first call returns, and its result is passed to a second call.
StitchReturnFirst ==
    /\ spc = "first" /\ squeue = <<>>
    /\ sout' = <<StitchFlush(sst)>>
    /\ squeue' = StitchFlush(sst)
    /\ sst' = StitchStart
    /\ spc' = "second"
    /\ UNCHANGED <<sarg, parseVars, groupVars>>

\* The second call returns.
StitchReturnSecond ==
    /\ spc = "second" /\ squeue = <<>>
    /\ sout' = Append(sout, StitchFlush(sst))
    /\ spc' = "done"
    /\ UNCHANGED <<sarg, squeue, sst, parseVars, groupVars>>

NextStitch == StitchIterate \/ StitchReturnFirst \/ StitchReturnSecond

InitStitch == StitchInit /\ ParseIdle /\ GroupIdle

SpecStitch == InitStitch /\ [][NextStitch]_vars

\* ------------------------------------------------------------ properties

\* The text of the row the row loop consumed last.
LastRowText == RowTextAt(rows, source, row_idx)

\* The row loop has consumed a row of the current page.
RowConsumed == pc = "rows" /\ row_idx > 0

\* The items list holds an item of the given page and line.
HasItemAt(page, line) ==
    \E i \in DOMAIN items : items[i].page = page /\ items[i].line = line

\* C1: every item's frr_minutes is one of 30, 60, 90, 120, 180, 240, and a
\* row whose parsed FRR numeral (the match normalize_frr selects) is any
\* other value yields no item, whatever else the row holds.
C1_FrrWhitelisted ==
    /\ \A i \in DOMAIN items : items[i].frr_minutes \in {30, 60, 90, 120, 180, 240}
    /\ RowConsumed =>
          \A d \in FrrDigits(LastRowText) :
              ToInt(d) \notin {30, 60, 90, 120, 180, 240}
                  => ~HasItemAt(page_number, row_idx)

\* A row of a words page holding "R45", well-formed otherwise (section
\* size, DFT, member mark), has been consumed and gave no item.
C1_Witness ==
    /\ RowConsumed
    /\ LastRowText = Join(LineR45)
    /\ HasSection(LastRowText)
    /\ extract_dft(LastRowText) # {} /\ extract_member_mark(LastRowText) # {}
    /\ ~HasItemAt(page_number, row_idx)
    /\ source = "words"

\* The numeral of the row's explicit "FRR" label (FRR_LEGACY_REGEX).
LegacyMinutes(t) ==
    LET i == First({p \in 1..Len(t) : LegacyMatchAt(t, p)})
        j == i + 3 + SepRun(t, i + 3)
    IN  ToInt(SubSeq(t, j, j + DigitRun(t, j) - 1))

\* C2: a row of at least 10 characters that holds a section size and gives
\* its rating only by the "FRR" label (no bare R## anywhere), with a
\* standard value, passes the gate and yields an item with that value.
C2_LabelFormAccepted ==
    RowConsumed =>
        LET t == LastRowText
        IN  (/\ Len(t) >= 10
             /\ HasSection(t)
             /\ ~HasFrr(t)
             /\ HasLegacyFrr(t)
             /\ LegacyMinutes(t) \in {30, 60, 90, 120, 180, 240})
            => \E i \in DOMAIN items :
                   /\ items[i].page = page_number
                   /\ items[i].line = row_idx
                   /\ items[i].frr_minutes = LegacyMinutes(t)

\* C6: an item's line is 1 plus the position of its row among the rows the
\* page's loop runs over (the post-stitch rows of a words page, the
\* non-empty table rows of a table page), rows that gave no item counted;
\* so the items are in increasing order of (page, line).
C6_LineKeepsGaps ==
    /\ \A i \in DOMAIN items :
          LET it == items[i]
          IN  /\ it.page \in 1..Len(seen)
              /\ it.line \in 1..Len(seen[it.page].texts)
              /\ it.raw_text = Strip(seen[it.page].texts[it.line])
              /\ it.page = page_number => it.line <= row_idx
    /\ \A i, j \in DOMAIN items :
          i < j => \/ items[i].page < items[j].page
                   \/ /\ items[i].page = items[j].page
                      /\ items[i].line < items[j].line

\* A words page whose first post-stitch row gave no item and whose second
\* gave one: the page's only item has line 2.
C6_Witness ==
    /\ pc = "done"
    /\ \E p \in DOMAIN seen :
          /\ seen[p].kind = "words"
          /\ HasItemAt(p, 2)
          /\ ~HasItemAt(p, 1)

\* C7: an item has confidence 0.95 and needs_review false when its
\* dft_required_microns and member_mark are both present, and confidence
\* 0.75 and needs_review true when either is absent; and a row that passes
\* the gate with a standard rating yields an item whether or not it holds a
\* DFT or a member mark.
C7_ConfidenceTwoValued ==
    /\ \A i \in DOMAIN items :
          LET it == items[i]
          IN  IF it.dft_required_microns # {} /\ it.member_mark # {}
              THEN it.confidence = 95 /\ it.needs_review = FALSE
              ELSE it.confidence = 75 /\ it.needs_review = TRUE
    /\ RowConsumed =>
          LET t == LastRowText
          IN  (is_valid_structural_row(t) /\ normalize_frr(t) # {})
                  => \E i \in DOMAIN items :
                         /\ items[i].page = page_number
                         /\ items[i].line = row_idx
                         /\ items[i].dft_required_microns = extract_dft(t)
                         /\ items[i].member_mark = extract_member_mark(t)

\* A document gave an item with both fields, one without a DFT and one
\* without a member mark.
C7_Witness ==
    /\ \E i \in DOMAIN items :
          /\ items[i].dft_required_microns = {} /\ items[i].member_mark # {}
          /\ items[i].confidence = 75
    /\ \E i \in DOMAIN items :
          \/ /\ items[i].dft_required_microns # {} /\ items[i].member_mark = {}
             /\ items[i].confidence = 75
          \/ /\ items[i].dft_required_microns # {} /\ items[i].member_mark # {}
             /\ items[i].confidence = 95

\* The rows of the pages begun, as [page, line, text], in the order the
\* loops run over them; of the current page, those consumed so far.
RECURSIVE RowsFrom(_)
RowsFrom(p) ==
    IF p > Len(seen) THEN <<>>
    ELSE LET n == IF pc = "rows" /\ p = page_number
                  THEN row_idx ELSE Len(seen[p].texts)
         IN  [k \in 1..n |-> [page |-> p, line |-> k, text |-> seen[p].texts[k]]]
             \o RowsFrom(p + 1)

\* The elements of sq at the positions S, in order.
Pick(sq, S) ==
    [k \in 1..Cardinality(S) |->
        sq[CHOOSE i \in S : Cardinality({j \in S : j <= i}) = k]]

\* The rows consumed that hold a section size and a bare R## token with a
\* standard rating, in at least 10 characters.
QualifyingRow(r) ==
    /\ Len(r.text) >= 10
    /\ HasSection(r.text)
    /\ HasFrr(r.text)
    /\ normalize_frr(r.text) # {}

QualifyingRows ==
    LET R == RowsFrom(1)
    IN  Pick(R, {i \in DOMAIN R : QualifyingRow(R[i])})

LongRow(r) == Len(r.text) > 15

LongRows ==
    LET R == RowsFrom(1)
    IN  Pick(R, {i \in DOMAIN R : LongRow(R[i])})

\* The items list holds exactly one item per qualifying row, in order.
ItemsMatch(its, q) ==
    /\ Len(its) = Len(q)
    /\ \A k \in DOMAIN its :
          /\ its[k].page = q[k].page
          /\ its[k].line = q[k].line
          /\ its[k].raw_text = Strip(q[k].text)

\* The document was opened and parse_loading_schedule has returned.
Returned ==
    /\ pc = "done"
    /\ \A r \in result : r.status = "completed" \/ r.error_code # "PARSER_ERROR"

\* C3: when the document opened, the result is "failed" with
\* NO_STRUCTURAL_ROWS_DETECTED, no items, items_extracted 0 and at most 10
\* debug samples (the first rows longer than 15 characters, with their
\* section and FRR flags) if no row gave an item, and "completed" with
\* every item otherwise; items_extracted is len(items) either way.
C3_TerminalDecision ==
    Returned =>
        \A r \in result :
            /\ r.items_extracted = Len(r.items)
            /\ IF QualifyingRows = <<>>
               THEN /\ r.status = "failed"
                    /\ r.error_code = "NO_STRUCTURAL_ROWS_DETECTED"
                    /\ r.items = <<>>
                    /\ r.items_extracted = 0
                    /\ Len(r.debug_samples) <= 10
                    /\ Len(r.debug_samples) <= Len(LongRows)
                    /\ Len(LongRows) <= 10 => Len(r.debug_samples) = Len(LongRows)
                    /\ \A k \in DOMAIN r.debug_samples :
                          /\ r.debug_samples[k].text = Take(LongRows[k].text, 100)
                          /\ r.debug_samples[k].page = LongRows[k].page
                          /\ r.debug_samples[k].has_section = HasSection(LongRows[k].text)
                          /\ r.debug_samples[k].has_frr = HasFrr(LongRows[k].text)
               ELSE /\ r.status = "completed"
                    /\ ItemsMatch(r.items, QualifyingRows)

\* A document of more than 10 rows longer than 15 characters, none giving
\* an item, returned "failed" with exactly 10 samples.
C3_Witness ==
    /\ Returned
    /\ Len(LongRows) > 10
    /\ \E r \in result : r.status = "failed" /\ Len(r.debug_samples) = 10

\* C4: a page on which extraction raises adds exactly one error, "Page k:
\* ...", the loop goes on to the next page, and the items are those of
\* the qualifying rows of the other pages, in page order: none is lost.
C4_PageFailureIsolated ==
    /\ \A k \in DOMAIN seen :
          seen[k].kind = "raised" =>
              /\ Cardinality({e \in DOMAIN errors : errors[e].page = k}) = 1
              /\ k < page_number
    /\ pc \in {"page", "done"} => ItemsMatch(items, QualifyingRows)
    /\ Returned =>
          \A r \in result :
              IF items = <<>> THEN r.status = "failed"
              ELSE r.status = "completed" /\ r.items = items

\* Extraction raised on page 2 of 3, and the result holds an item of page 1
\* and an item of page 3.
C4_Witness ==
    /\ Returned
    /\ total_pages = 3
    /\ seen[2].kind = "raised"
    /\ \E r \in result :
          /\ r.status = "completed"
          /\ \E i, j \in DOMAIN r.items : r.items[i].page = 1 /\ r.items[j].page = 3
          /\ \E e \in DOMAIN r.errors : r.errors[e].page = 2

\* How many times w occurs in sq.
Count(sq, w) == Cardinality({i \in DOMAIN sq : sq[i] = w})

\* The words of the rows, one row after the other.
RECURSIVE WordsOf(_)
WordsOf(rs) == IF rs = <<>> THEN <<>> ELSE rs[1].words \o WordsOf(Tail(rs))

\* C9: group_rows partitions its words into rows: every word is in exactly
\* one row and nothing else is; a row's y is the top of the first word put
\* in it, the least top of its words; every word of a row is within the
\* tolerance (3) of the row's y; a row's words are in ascending x0; no words
\* give no rows.
C9_GroupPartitions ==
    /\ gpc = "place" =>
          \A i \in DOMAIN grows :
              /\ grows[i].words # <<>>
              /\ grows[i].y = grows[i].words[1].top
    /\ gpc = "done" =>
          /\ Len(WordsOf(grows)) = Len(gwords)
          /\ \A k \in DOMAIN gwords :
                Count(WordsOf(grows), gwords[k]) = Count(gwords, gwords[k])
          /\ \A i \in DOMAIN grows :
                LET ws == grows[i].words
                IN  /\ ws # <<>>
                    /\ \E k \in DOMAIN ws : ws[k].top = grows[i].y
                    /\ \A k \in DOMAIN ws :
                          /\ grows[i].y <= ws[k].top
                          /\ Abs(grows[i].y - ws[k].top) < 3
                    /\ \A k \in 1..(Len(ws) - 1) : ws[k].x0 <= ws[k + 1].x0
          /\ gwords = <<>> => grows = <<>>

\* group_rows returned two rows, one of two words that came in descending
\* order of x0.
C9_Witness ==
    /\ gpc = "done"
    /\ Len(grows) = 2
    /\ \E i \in DOMAIN grows :
          /\ Len(grows[i].words) = 2
          /\ grows[i].words[1].x0 < grows[i].words[2].x0
          /\ \E a, b \in DOMAIN gwords :
                a < b /\ gwords[a] = grows[i].words[2] /\ gwords[b] = grows[i].words[1]

\* C10: at every step of the loop of group_rows the rows' y values increase
\* strictly in creation order and two rows' y differ by the tolerance at
\* least; the next word is within the tolerance of at most one row, the one
\* created last; the rows returned are top to bottom.
C10_RowsApart ==
    gpc \in {"place", "done"} =>
        /\ \A i, j \in DOMAIN grows :
              i < j => grows[i].y < grows[j].y /\ grows[j].y - grows[i].y >= 3
        /\ (gpc = "place" /\ gqueue # <<>>) =>
              LET M == {i \in DOMAIN grows : Abs(grows[i].y - Head(gqueue).top) < 3}
              IN  /\ Cardinality(M) <= 1
                  /\ M \subseteq {Len(grows)}
                  /\ \A i \in DOMAIN grows : grows[i].y <= Head(gqueue).top

\* Two rows exist and the next word is within the tolerance of the second
\* and came in before a word of the first row.
C10_Witness ==
    /\ gpc = "place"
    /\ Len(grows) = 2
    /\ gqueue # <<>>
    /\ Abs(grows[2].y - Head(gqueue).top) < 3
    /\ gwords[1] = Head(gqueue)

\* The row's stripped text is all digits and at most 2 characters long.
ShortNumeric(row) ==
    LET t == Strip(RowText(row))
    IN  /\ t # <<>>
        /\ \A i \in DOMAIN t : t[i] \in Digits
        /\ Len(t) <= 2

\* C5: stitch_rows applied to its own result returns it unchanged, and no
\* row of the result is a short numeric row.
C5_StitchIdempotent ==
    /\ Len(sout) >= 1 => \A i \in DOMAIN sout[1] : ~ShortNumeric(sout[1][i])
    /\ Len(sout) = 2 => sout[2] = sout[1]

\* The first call merged a fragment into the row before it, and the second
\* call has returned.
C5_Witness ==
    /\ spc = "done"
    /\ Len(sout) = 2
    /\ Len(sout[1]) >= 1
    /\ Len(sout[1]) < Len(sarg)
    /\ \E i \in DOMAIN sout[1] : Len(sout[1][i].words) > Len(sarg[1].words) + 1

\* The positions of the content rows of rs (those that are not short
\* numeric rows).
ContentRows(rs) == {i \in DOMAIN rs : ~ShortNumeric(rs[i])}

\* The words of rows i+1, i+2, ... of rs up to the next content row.
RECURSIVE Trailing(_, _)
Trailing(rs, i) ==
    IF i + 1 > Len(rs) \/ ~ShortNumeric(rs[i + 1]) THEN <<>>
    ELSE rs[i + 1].words \o Trailing(rs, i + 1)

\* The content rows of rs in order, each with the words of the short
\* numeric rows that follow it appended.
Absorbed(rs) ==
    LET C == ContentRows(rs)
    IN  [k \in 1..Cardinality(C) |->
            LET i == CHOOSE c \in C : Cardinality({d \in C : d <= c}) = k
            IN  [rs[i] EXCEPT !.words = @ \o Trailing(rs, i)]]

\* C8: stitch_rows returns the content rows of its argument in order, each
\* with the words of the short numeric rows between it and the next content
\* row appended in the order met; short numeric rows before the first
\* content row are dropped.
C8_StitchNetEffect ==
    /\ Len(sout) >= 1 => sout[1] = Absorbed(sarg)
    /\ Len(sout) >= 1 =>
          \A k \in DOMAIN sarg : \A w \in DOMAIN sarg[k].words :
              Count(WordsOf(sout[1]), sarg[k].words[w])
                  = IF \E c \in ContentRows(sarg) : c <= k THEN 1 ELSE 0

\* The argument began with a short numeric row, which was dropped, and a
\* content row took in the short numeric row after it.
C8_Witness ==
    /\ Len(sout) >= 1
    /\ Len(sarg) = 3
    /\ ShortNumeric(sarg[1]) /\ ~ShortNumeric(sarg[2]) /\ ShortNumeric(sarg[3])
    /\ Len(sout[1]) = 1
    /\ sout[1][1].words = sarg[2].words \o sarg[3].words

====
